---- MODULE Spec2Model ----
(***************************************************************************)
(* Build in Public: transcript analysis and post generation                *)
(* (scripts/generate_posts.py).                                            *)
(*                                                                         *)
(* Text is modelled as a sequence of text units.  Every character the code *)
(* inspects on its own (quotes, separators, whitespace, the dot of a file  *)
(* extension, '-', '#', the characters of a commit message that a slice    *)
(* counts) is a unit of one character; a run of characters that no         *)
(* operation of the program splits (a word, the literal text of a          *)
(* template) is one unit.  A Python None / absent key is the empty set and *)
(* a present value v the singleton {v}.                                    *)
(***************************************************************************)
EXTENDS Integers, Sequences, FiniteSets, TLC

(***************************************************************************)
(* Bounds of the model                                                     *)
(***************************************************************************)
MaxPathLen == 4
MaxTokens == 5
MaxLines == 3
MaxCommits == 2
MaxErrors == 2
MaxCreated == 3
MaxHistory == 4
MaxResponses == 2

(***************************************************************************)
(* Python str operations on sequences of text units                        *)
(***************************************************************************)
Whitespace == {" ", "\t", "\n"}
Quotes == {"\"", "'"}

Some(v) == {v}
None == {}
Get(opt) == CHOOSE v \in opt : TRUE

RECURSIVE LStripChars(_, _)
LStripChars(s, chars) ==
  IF s # <<>> /\ Head(s) \in chars THEN LStripChars(Tail(s), chars) ELSE s

RECURSIVE RStripChars(_, _)
RStripChars(s, chars) ==
  IF s # <<>> /\ s[Len(s)] \in chars
  THEN RStripChars(SubSeq(s, 1, Len(s) - 1), chars) ELSE s

StripChars(s, chars) == RStripChars(LStripChars(s, chars), chars)

Strip(s) == StripChars(s, Whitespace)

Replace(s, old, new) == [i \in 1..Len(s) |-> IF s[i] = old THEN new ELSE s[i]]

RECURSIVE Remove(_, _)
Remove(s, ch) ==
  IF s = <<>> THEN <<>>
  ELSE IF Head(s) = ch THEN Remove(Tail(s), ch)
  ELSE <<Head(s)>> \o Remove(Tail(s), ch)

RECURSIVE Split(_, _)
Split(s, sep) ==
  IF \A i \in 1..Len(s) : s[i] # sep THEN <<s>>
  ELSE LET k == CHOOSE i \in 1..Len(s) :
                  s[i] = sep /\ \A j \in 1..(i - 1) : s[j] # sep
       IN <<SubSeq(s, 1, k - 1)>> \o Split(SubSeq(s, k + 1, Len(s)), sep)

RECURSIVE Join(_, _)
Join(parts, sep) ==
  IF parts = <<>> THEN <<>>
  ELSE IF Len(parts) = 1 THEN parts[1]
  ELSE parts[1] \o sep \o Join(Tail(parts), sep)

IsInfix(needle, s) ==
  \E i \in 0..(Len(s) - Len(needle)) :
     \A j \in 1..Len(needle) : s[i + j] = needle[j]

Slice(s, n) == SubSeq(s, 1, IF Len(s) < n THEN Len(s) ELSE n)

LastN(s, n) == SubSeq(s, IF Len(s) > n THEN Len(s) - n + 1 ELSE 1, Len(s))

RECURSIVE SelectNonEmpty(_)
SelectNonEmpty(parts) ==
  IF parts = <<>> THEN <<>>
  ELSE IF Head(parts) = <<>> THEN SelectNonEmpty(Tail(parts))
  ELSE <<Head(parts)>> \o SelectNonEmpty(Tail(parts))

LowerUnit(u) ==
  CASE u = "Dev" -> "dev"
    [] u = "Src" -> "src"
    [] u = "PY" -> "py"
    [] u = "Error" -> "error"
    [] u = "Fixed" -> "fixed"
    [] u = "Users" -> "users"
    [] u = "Minimal" -> "minimal"
    [] OTHER -> u

Lower(s) == [i \in 1..Len(s) |-> LowerUnit(s[i])]

(***************************************************************************)
(* Privacy sanitizer                                                       *)
(***************************************************************************)
\* mutant: the directories of the path are kept
safe_display_path_keep_dirs(raw_path) ==
  IF raw_path = <<>> THEN <<>>
  ELSE LET s1 == StripChars(StripChars(Strip(raw_path), {"\""}), {"'"})
           s2 == RStripChars(s1, {"/", "\\"})
       IN Replace(s2, "\\", "/")

safe_display_path(raw_path) ==
  IF raw_path = <<>> THEN <<>>
  ELSE LET s1 == StripChars(StripChars(Strip(raw_path), {"\""}), {"'"})
           s2 == RStripChars(s1, {"/", "\\"})
           s == Replace(s2, "\\", "/")
           parts == Split(s, "/")
           base == IF s # <<>> THEN parts[Len(parts)] ELSE <<>>
       IN IF base # <<>> THEN base ELSE s

generic_prefixes ==
  {<<"dev">>, <<"code">>, <<"projects">>, <<"project">>, <<"repos">>,
   <<"repo">>, <<"work">>, <<"workspace">>, <<"src">>}

RECURSIVE DropGeneric(_)
DropGeneric(tail) ==
  IF tail # <<>> /\ Lower(Head(tail)) \in generic_prefixes
  THEN DropGeneric(Tail(tail)) ELSE tail

safe_project_name(raw_project_dir, fallback) ==
  LET raw == Strip(raw_project_dir)
      fb == Strip(IF fallback = None THEN <<>> ELSE Get(fallback))
      tokens == SelectNonEmpty(Split(raw, "-"))
      joined == Join(DropGeneric(LastN(tokens, 4)), <<"-">>)
  IN IF fb # <<>> THEN fb
     ELSE IF raw = <<>> THEN <<>>
     ELSE IF Len(tokens) >= 4
          THEN (IF joined # <<>> THEN joined ELSE raw)
          ELSE raw

(***************************************************************************)
(* Transcript lines and JSON values                                        *)
(*                                                                         *)
(* A primitive JSON value is [t, s]: its type and its text (the string     *)
(* itself, or what str() prints).  A tool input is [t, file_path, path,    *)
(* command]; message content is [t, s, items].                             *)
(***************************************************************************)
JStr(s) == [t |-> "str", s |-> s]
JInt(s) == [t |-> "int", s |-> s]
JNull == [t |-> "null", s |-> <<"None">>]

Truthy(v) ==
  CASE v.t = "str" -> v.s # <<>>
    [] v.t = "int" -> v.s # <<"0">>
    [] OTHER -> FALSE

NoInput == [t |-> "dict", file_path |-> None, path |-> None, command |-> None]
NonMapInput == [NoInput EXCEPT !.t = "str"]

StrContent(s) == [t |-> "str", s |-> s, items |-> <<>>]
ListContent(items) == [t |-> "list", s |-> <<>>, items |-> items]
TextItem(s) == [isdict |-> TRUE, text |-> Some(JStr(s))]
NonDictItem == [isdict |-> FALSE, text |-> None]

EmptyObj ==
  [t |-> "dict", type |-> None, role |-> None, name |-> None,
   tool_name |-> None, tool_input |-> None, input |-> None,
   content |-> None, timestamp |-> None]
NonObj == [EmptyObj EXCEPT !.t = "int"]

GoodLine(value) == [syntax |-> "json", value |-> value]
BadLine == [syntax |-> "invalid", value |-> EmptyObj]
BlankLine == [syntax |-> "blank", value |-> EmptyObj]

\* open(...) / for line in f / json.loads: one line of the file
json_loads(line) == IF line.syntax = "json" THEN Some(line.value) ELSE None

parse_line(messages, line) ==
  IF line.syntax = "blank" THEN messages
  ELSE IF json_loads(line) = None THEN messages
  ELSE Append(messages, Get(json_loads(line)))

(***************************************************************************)
(* Activity extractor: the body of the loop over the records               *)
(***************************************************************************)
lang_extensions(ext) ==
  CASE ext = <<".", "py">> -> Some(<<"Python">>)
    [] ext = <<".", "js">> -> Some(<<"JavaScript">>)
    [] ext = <<".", "ts">> -> Some(<<"TypeScript">>)
    [] ext = <<".", "jsx">> -> Some(<<"React">>)
    [] ext = <<".", "tsx">> -> Some(<<"React", "/", "TypeScript">>)
    [] ext = <<".", "go">> -> Some(<<"Go">>)
    [] ext = <<".", "rs">> -> Some(<<"Rust">>)
    [] ext = <<".", "rb">> -> Some(<<"Ruby">>)
    [] ext = <<".", "java">> -> Some(<<"Java">>)
    [] ext = <<".", "cpp">> -> Some(<<"C++">>)
    [] ext = <<".", "c">> -> Some(<<"C">>)
    [] ext = <<".", "swift">> -> Some(<<"Swift">>)
    [] ext = <<".", "kt">> -> Some(<<"Kotlin">>)
    [] ext = <<".", "sql">> -> Some(<<"SQL">>)
    [] ext = <<".", "html">> -> Some(<<"HTML">>)
    [] ext = <<".", "css">> -> Some(<<"CSS">>)
    [] ext = <<".", "scss">> -> Some(<<"SCSS">>)
    [] ext = <<".", "vue">> -> Some(<<"Vue">>)
    [] ext = <<".", "svelte">> -> Some(<<"Svelte">>)
    [] ext = <<".", "md">> -> Some(<<"Markdown">>)
    [] ext = <<".", "json">> -> Some(<<"JSON">>)
    [] ext = <<".", "yaml">> -> Some(<<"YAML">>)
    [] ext = <<".", "yml">> -> Some(<<"YAML">>)
    [] ext = <<".", "sh">> -> Some(<<"Bash">>)
    [] ext = <<".", "dockerfile">> -> Some(<<"Docker">>)
    [] OTHER -> None

\* pathlib: Path(p).name
PathName(p) ==
  LET comps == SelectNonEmpty(Split(p, "/"))
      last == IF comps = <<>> THEN <<>> ELSE comps[Len(comps)]
  IN IF last = <<".">> THEN <<>> ELSE last

\* pathlib: Path(p).suffix
PathSuffix(p) ==
  LET name == PathName(p)
      dots == {i \in 1..Len(name) : name[i] = "."}
      i == IF dots = {} THEN 0
           ELSE CHOOSE d \in dots : \A e \in dots : e <= d
  IN IF 1 < i /\ i < Len(name) THEN SubSeq(name, i, Len(name)) ELSE <<>>

write_tools == {"Write", "create_file"}
edit_tools == {"Edit", "MultiEdit", "str_replace"}

test_keywords ==
  {<<"pytest">>, <<"jest">>, <<"npm", " ", "test">>, <<"cargo", " ", "test">>,
   <<"go", " ", "test">>, <<"rspec">>}

\* re.search(r'-m ["\'](.+?)["\']', command): the positions (i, j) of the
\* opening "-m" and of the closing quote of a match
CommitMatches(command) ==
  {p \in (1..Len(command)) \X (1..Len(command)) :
     /\ p[1] + 5 <= p[2]
     /\ command[p[1]] = "-"
     /\ command[p[1] + 1] = "m"
     /\ command[p[1] + 2] = " "
     /\ command[p[1] + 3] \in Quotes
     /\ command[p[2]] \in Quotes
     /\ \A k \in (p[1] + 4)..(p[2] - 1) : command[k] # "\n"}

commit_match(command) ==
  LET ms == CommitMatches(command)
  IN IF ms = {} THEN None
     ELSE LET i == CHOOSE a \in {p[1] : p \in ms} :
                     \A b \in {p[1] : p \in ms} : a <= b
              j == CHOOSE a \in {p[2] : p \in {q \in ms : q[1] = i}} :
                     \A b \in {p[2] : p \in {q \in ms : q[1] = i}} : a <= b
          IN Some(SubSeq(command, i + 4, j - 1))

InitAcc ==
  [files_created |-> {}, files_modified |-> {}, git_commits |-> <<>>,
   errors_fixed |-> 0, tests_run |-> FALSE, total_tool_calls |-> 0,
   languages_used |-> {}, first_timestamp |-> None, last_timestamp |-> None]

tool_name_of(msg) ==
  IF msg.name # None THEN Get(msg.name)
  ELSE IF msg.tool_name # None THEN Get(msg.tool_name) ELSE ""

tool_input_of(msg) ==
  IF msg.tool_input # None THEN Get(msg.tool_input)
  ELSE IF msg.input # None THEN Get(msg.input) ELSE NoInput

file_path_of(tool_input) ==
  IF tool_input.file_path # None THEN Get(tool_input.file_path)
  ELSE IF tool_input.path # None THEN Get(tool_input.path) ELSE JStr(<<>>)

command_of(tool_input) ==
  IF tool_input.command # None THEN Get(tool_input.command) ELSE JStr(<<>>)

is_tool_use(msg) == msg.type = Some("tool_use") \/ msg.tool_input # None

is_assistant(msg) == msg.type = Some("assistant") \/ msg.role = Some("assistant")

\* JSON null loads as Python None
PyValue(v) == IF v.t = "null" THEN None ELSE Some(v)

track_timestamps(a, msg) ==
  IF msg.timestamp = None THEN a
  ELSE LET ts == PyValue(Get(msg.timestamp))
       IN [a EXCEPT !.first_timestamp =
                       IF a.first_timestamp = None THEN ts ELSE @,
                    !.last_timestamp = ts]

process_file_op(a, tool_name, tool_input) ==
  LET file_path == file_path_of(tool_input)
      safe_path == safe_display_path(file_path.s)
      lang == lang_extensions(Lower(PathSuffix(safe_path)))
      a1 == [a EXCEPT !.languages_used = @ \cup lang]
  IN IF ~Truthy(file_path) THEN a
     ELSE IF tool_name \in write_tools
          THEN [a1 EXCEPT !.files_created = @ \cup {safe_path}]
          ELSE [a1 EXCEPT !.files_modified = @ \cup {safe_path}]

\* mutant: tests_run is assigned the result of the keyword test
process_bash_assign(a, tool_input) ==
  LET command == command_of(tool_input).s
      m == IF IsInfix(<<"git", " ", "commit">>, command)
           THEN commit_match(command) ELSE None
      a1 == IF m = None THEN a
            ELSE [a EXCEPT !.git_commits = Append(@, Get(m))]
  IN [a1 EXCEPT !.tests_run = \E t \in test_keywords : IsInfix(t, command)]

\* mutant: a commit message is put in front of the earlier ones
process_bash_prepend(a, tool_input) ==
  LET command == command_of(tool_input).s
      m == IF IsInfix(<<"git", " ", "commit">>, command)
           THEN commit_match(command) ELSE None
      a1 == IF m = None THEN a
            ELSE [a EXCEPT !.git_commits = <<Get(m)>> \o @]
  IN IF \E t \in test_keywords : IsInfix(t, command)
     THEN [a1 EXCEPT !.tests_run = TRUE] ELSE a1

process_bash(a, tool_input) ==
  LET command == command_of(tool_input).s
      m == IF IsInfix(<<"git", " ", "commit">>, command)
           THEN commit_match(command) ELSE None
      a1 == IF m = None THEN a
            ELSE [a EXCEPT !.git_commits = Append(@, Get(m))]
  IN IF \E t \in test_keywords : IsInfix(t, command)
     THEN [a1 EXCEPT !.tests_run = TRUE] ELSE a1

\* the record makes the loop body raise (AttributeError / TypeError)
tool_raises(msg) ==
  LET tool_name == tool_name_of(msg)
      tool_input == tool_input_of(msg)
  IN /\ is_tool_use(msg)
     /\ \/ /\ tool_name \in write_tools \cup edit_tools
           /\ tool_input.t # "dict"
        \/ /\ tool_name = "Bash"
           /\ \/ tool_input.t # "dict"
              \/ command_of(tool_input).t # "str"

\* mutant: only Bash records are counted as tool calls
process_tool_use_bash_only(a, msg) ==
  LET tool_name == tool_name_of(msg)
      tool_input == tool_input_of(msg)
  IN IF ~is_tool_use(msg) THEN a
     ELSE IF tool_name \in write_tools \cup edit_tools
          THEN process_file_op(a, tool_name, tool_input)
     ELSE IF tool_name = "Bash"
          THEN process_bash([a EXCEPT !.total_tool_calls = @ + 1], tool_input)
     ELSE a

process_tool_use(a, msg) ==
  LET tool_name == tool_name_of(msg)
      tool_input == tool_input_of(msg)
      a1 == [a EXCEPT !.total_tool_calls = @ + 1]
  IN IF ~is_tool_use(msg) THEN a
     ELSE IF tool_name \in write_tools \cup edit_tools
          THEN process_file_op(a1, tool_name, tool_input)
     ELSE IF tool_name = "Bash" THEN process_bash(a1, tool_input)
     ELSE a1

RECURSIVE JoinTexts(_)
JoinTexts(items) ==
  IF items = <<>> THEN <<>>
  ELSE LET c == Head(items)
           txt == IF c.text = None THEN <<>> ELSE Get(c.text).s
           rest == JoinTexts(Tail(items))
       IN IF ~c.isdict THEN rest
          ELSE IF \A k \in 1..Len(Tail(items)) : ~Tail(items)[k].isdict
               THEN txt
          ELSE txt \o <<" ">> \o rest

process_assistant(a, msg) ==
  LET content == IF msg.content = None THEN StrContent(<<>>)
                 ELSE Get(msg.content)
      flat == IF content.t = "list" THEN JoinTexts(content.items)
              ELSE IF content.t = "str" THEN content.s ELSE <<>>
      content_lower == Lower(flat)
  IN IF /\ is_assistant(msg)
        /\ IsInfix(<<"error">>, content_lower)
        /\ \/ IsInfix(<<"fixed">>, content_lower)
           \/ IsInfix(<<"resolved">>, content_lower)
     THEN [a EXCEPT !.errors_fixed = @ + 1] ELSE a

record_raises(msg) == msg.t # "dict" \/ tool_raises(msg)

process_record(a, msg) ==
  process_assistant(process_tool_use(track_timestamps(a, msg), msg), msg)

(***************************************************************************)
(* Activity extractor: duration, highlights and the Summary                *)
(*                                                                         *)
(* An ISO-8601 timestamp is <<"2024-01-01T", HH, ":", MM, ":", SS>>        *)
(* followed by nothing (naive), "Z" or "+00:00".                           *)
(***************************************************************************)
TwoDigits(u) ==
  CASE u = "00" -> Some(0)
    [] u = "01" -> Some(1)
    [] u = "10" -> Some(10)
    [] u = "11" -> Some(11)
    [] u = "12" -> Some(12)
    [] u = "30" -> Some(30)
    [] u = "59" -> Some(59)
    [] OTHER -> None

\* datetime.fromisoformat: None stands for ValueError
fromisoformat(s) ==
  IF /\ Len(s) \in {6, 7}
     /\ s[1] = "2024-01-01T" /\ s[3] = ":" /\ s[5] = ":"
     /\ TwoDigits(s[2]) # None /\ TwoDigits(s[4]) # None
     /\ TwoDigits(s[6]) # None
     /\ (Len(s) = 7 => s[7] = "+00:00")
  THEN Some([seconds |-> 3600 * Get(TwoDigits(s[2]))
                          + 60 * Get(TwoDigits(s[4])) + Get(TwoDigits(s[6])),
             aware |-> Len(s) = 7])
  ELSE None

\* int(x / 60): truncation toward zero
TruncDiv60(x) == IF x >= 0 THEN x \div 60 ELSE -((-x) \div 60)

OptTruthy(opt) == opt # None /\ Truthy(Get(opt))

\* last_timestamp.replace on a value that is not a str: AttributeError
duration_raises(a) ==
  /\ OptTruthy(a.first_timestamp) /\ OptTruthy(a.last_timestamp)
  /\ Get(a.first_timestamp).t = "str"
  /\ fromisoformat(Replace(Get(a.first_timestamp).s, "Z", "+00:00")) # None
  /\ Get(a.last_timestamp).t # "str"

duration_minutes_of(a) ==
  IF ~(OptTruthy(a.first_timestamp) /\ OptTruthy(a.last_timestamp)) THEN 0
  ELSE IF Get(a.first_timestamp).t # "str" THEN 0
  ELSE LET first_dt ==
             fromisoformat(Replace(Get(a.first_timestamp).s, "Z", "+00:00"))
           last_dt ==
             fromisoformat(Replace(Get(a.last_timestamp).s, "Z", "+00:00"))
       IN IF first_dt = None \/ last_dt = None THEN 0
          ELSE IF Get(first_dt).aware # Get(last_dt).aware THEN 0
          ELSE TruncDiv60(Get(last_dt).seconds - Get(first_dt).seconds)

\* list(a_set): the orders in which a set can be iterated
Orders(S) ==
  {f \in [1..Cardinality(S) -> S] :
     \A i, j \in 1..Cardinality(S) : i # j => f[i] # f[j]}

Highlight(category, description, files_involved) ==
  [category |-> category, description |-> description,
   files_involved |-> files_involved]

\* mutant: every commit becomes a milestone and the fix precedes the test
highlights_unordered(files_created, git_commits, tests_run, errors_fixed) ==
  (IF files_created # <<>>
   THEN <<Highlight("feature",
                    <<"Created ", ToString(Len(files_created)),
                      " new file(s)">>,
                    Slice(files_created, 5))>>
   ELSE <<>>)
  \o [i \in 1..Len(git_commits) |->
        Highlight("milestone", git_commits[i], <<>>)]
  \o (IF errors_fixed > 0
      THEN <<Highlight("fix",
                       <<"Fixed ", ToString(errors_fixed), " error(s)">>,
                       <<>>)>>
      ELSE <<>>)
  \o (IF tests_run THEN <<Highlight("test", <<"Ran test suite">>, <<>>)>>
      ELSE <<>>)

make_highlights(files_created, git_commits, tests_run, errors_fixed) ==
  (IF files_created # <<>>
   THEN <<Highlight("feature",
                    <<"Created ", ToString(Len(files_created)),
                      " new file(s)">>,
                    Slice(files_created, 5))>>
   ELSE <<>>)
  \o [i \in 1..Len(Slice(git_commits, 3)) |->
        Highlight("milestone", git_commits[i], <<>>)]
  \o (IF tests_run THEN <<Highlight("test", <<"Ran test suite">>, <<>>)>>
      ELSE <<>>)
  \o (IF errors_fixed > 0
      THEN <<Highlight("fix",
                       <<"Fixed ", ToString(errors_fixed), " error(s)">>,
                       <<>>)>>
      ELSE <<>>)

make_summary(a, created_list, modified_list) ==
  [session_id |-> <<>>,
   project_name |-> <<>>,
   duration_minutes |-> duration_minutes_of(a),
   highlights |-> make_highlights(created_list, a.git_commits, a.tests_run,
                                  a.errors_fixed),
   files_created |-> created_list,
   files_modified |-> modified_list,
   tests_run |-> a.tests_run,
   git_commits |-> a.git_commits,
   errors_fixed |-> a.errors_fixed,
   total_tool_calls |-> a.total_tool_calls,
   languages_used |-> a.languages_used]

NoSummary == make_summary(InitAcc, <<>>, <<>>)

(***************************************************************************)
(* Post generator                                                          *)
(***************************************************************************)
\* the position of a language label in Python's string order
LangRank(lang) ==
  LET order == <<<<"Bash">>, <<"C">>, <<"C++">>, <<"CSS">>, <<"Docker">>,
                 <<"Go">>, <<"HTML">>, <<"JSON">>, <<"Java">>,
                 <<"JavaScript">>, <<"Kotlin">>, <<"Markdown">>,
                 <<"Python">>, <<"React">>, <<"React", "/", "TypeScript">>,
                 <<"Ruby">>, <<"Rust">>, <<"SCSS">>, <<"SQL">>, <<"Svelte">>,
                 <<"Swift">>, <<"TypeScript">>, <<"Vue">>, <<"YAML">>>>
  IN CHOOSE i \in 1..Len(order) : order[i] = lang

RECURSIVE InsertSorted(_, _)
InsertSorted(x, sorted) ==
  IF sorted = <<>> THEN <<x>>
  ELSE IF LangRank(x) <= LangRank(Head(sorted)) THEN <<x>> \o sorted
  ELSE <<Head(sorted)>> \o InsertSorted(x, Tail(sorted))

\* mutant: the list is used in the iteration order of the set
Unsorted(list) == list

RECURSIVE Sorted(_)
Sorted(list) ==
  IF list = <<>> THEN <<>> ELSE InsertSorted(Head(list), Sorted(Tail(list)))

RECURSIVE Flatten(_)
Flatten(parts) ==
  IF parts = <<>> THEN <<>> ELSE Head(parts) \o Flatten(Tail(parts))

plural(n, singular) == IF n = 1 THEN singular ELSE singular \o <<"s">>

time_str(minutes) ==
  IF minutes <= 0 THEN <<>>
  ELSE IF minutes \div 60 # 0
       THEN <<ToString(minutes \div 60), "h ", ToString(minutes % 60), "m">>
       ELSE <<ToString(minutes % 60), " minutes">>

\* mutant: an absent style falls back to the third ("ship") wording
normal_style_ship(style, default) ==
  Lower(Strip(IF style = None \/ style = Some(<<>>) THEN <<"ship">>
              ELSE Get(style)))

normal_style(style, default) ==
  Lower(Strip(IF style = None \/ style = Some(<<>>) THEN default
              ELSE Get(style)))

make_hashtags(summary, lang_iter) ==
  LET langs == Slice(Sorted(lang_iter), 3)
  IN <<<<"#", "BuildingInPublic">>, <<"#", "CodingInPublic">>>>
     \o [i \in 1..Len(langs) |-> <<"#">> \o Remove(Remove(langs[i], "/"), " ")]
     \o (IF summary.tests_run THEN <<<<"#", "T", "D", "D">>>> ELSE <<>>)

short_commit(summary, twitter_style) ==
  LET commit_msg == Slice(summary.git_commits[1], 80)
  IN IF summary.git_commits = <<>> THEN <<>>
     ELSE IF twitter_style = <<"devlog">>
          THEN <<<<"devlog: shipped ">> \o commit_msg>>
     ELSE IF twitter_style = <<"minimal">>
          THEN <<<<"Shipped: ">> \o commit_msg>>
     ELSE <<<<"[done] Just shipped: ">> \o commit_msg>>

short_files(summary, twitter_style) ==
  LET count == Len(summary.files_created)
  IN IF summary.files_created = <<>> THEN <<>>
     ELSE IF twitter_style = <<"devlog">>
          THEN <<<<"devlog: added ", ToString(count), " ">>
                 \o plural(count, <<"new file">>)>>
     ELSE IF twitter_style = <<"minimal">>
          THEN <<<<"Created ", ToString(count), " ">>
                 \o plural(count, <<"new file">>)>>
     ELSE <<<<"[tools] Coding session complete!\n\nCreated ",
              ToString(count), " new file">>
            \o (IF count > 1 THEN <<"s">> ELSE <<>>) \o <<" today.">>>>

short_errors(summary, twitter_style) ==
  LET n == summary.errors_fixed
  IN IF ~(summary.errors_fixed > 0) THEN <<>>
     ELSE IF twitter_style = <<"devlog">>
          THEN <<<<"devlog: fixed ", ToString(n), " ">> \o plural(n, <<"bug">>)>>
     ELSE IF twitter_style = <<"minimal">>
          THEN <<<<"Fixed ", ToString(n), " ">> \o plural(n, <<"bug">>)>>
     ELSE <<<<"[bug] Squashed ", ToString(n), " bug">>
            \o (IF n > 1 THEN <<"s">> ELSE <<>>)
            \o <<" today!\n\nThe best feeling in coding.">>>>

\* mutant: the duration variant is appended for any nonzero duration
short_duration_nonzero(summary, twitter_style) ==
  LET t == time_str(summary.duration_minutes)
      ops == ToString(summary.total_tool_calls)
  IN IF summary.duration_minutes = 0 THEN <<>>
     ELSE IF twitter_style = <<"devlog">>
          THEN <<<<"devlog: ">> \o t \o <<" in the trenches (", ops, " ops)">>>>
     ELSE IF twitter_style = <<"minimal">>
          THEN <<t \o <<" of focused coding (", ops, " ops)">>>>
     ELSE <<<<"[timer] ">> \o t \o <<" of focused coding\n\n", ops,
                                    " operations later... progress!">>>>

short_duration(summary, twitter_style) ==
  LET t == time_str(summary.duration_minutes)
      ops == ToString(summary.total_tool_calls)
  IN IF ~(summary.duration_minutes > 0) THEN <<>>
     ELSE IF twitter_style = <<"devlog">>
          THEN <<<<"devlog: ">> \o t \o <<" in the trenches (", ops, " ops)">>>>
     ELSE IF twitter_style = <<"minimal">>
          THEN <<t \o <<" of focused coding (", ops, " ops)">>>>
     ELSE <<<<"[timer] ">> \o t \o <<" of focused coding\n\n", ops,
                                    " operations later... progress!">>>>

short_posts(summary, twitter_style) ==
  short_commit(summary, twitter_style) \o short_files(summary, twitter_style)
  \o short_errors(summary, twitter_style)
  \o short_duration(summary, twitter_style)

hook_options(summary, twitter_style, lang_iter) ==
  (IF summary.git_commits # <<>>
   THEN LET commit_preview == Slice(summary.git_commits[1], 100)
        IN IF twitter_style = <<"devlog">>
           THEN <<<<"devlog: Just shipped ">> \o commit_preview
                  \o <<"\n\nHere's what went into this [thread]">>>>
           ELSE <<<<"Just shipped: ">> \o commit_preview
                  \o <<"\n\nThread on how it came together [down]">>>>
   ELSE <<>>)
  \o (IF summary.files_created # <<>> /\ Len(summary.files_created) >= 3
      THEN LET count == ToString(Len(summary.files_created))
               langs == IF summary.languages_used # {}
                        THEN Join(Slice(Sorted(lang_iter), 2), <<", ">>)
                        ELSE <<"code">>
           IN IF twitter_style = <<"devlog">>
              THEN <<<<"devlog: Created ", count, " new files today\n\n">>
                     \o langs \o <<" - building in public [thread]">>>>
              ELSE <<<<"Built ", count, " new files today in ">> \o langs
                     \o <<"\n\nBreakdown [down]">>>>
      ELSE <<>>)
  \o (IF summary.errors_fixed >= 2
      THEN LET n == ToString(summary.errors_fixed)
           IN IF twitter_style = <<"devlog">>
              THEN <<<<"devlog: Squashed ", n,
                       " bugs in today's session\n\nThe debugging journey [thread]">>>>
              ELSE <<<<"Fixed ", n, " bugs today\n\nWhat I learned [down]">>>>
      ELSE <<>>)
  \o (IF summary.languages_used # {} /\ summary.duration_minutes > 15
      THEN LET langs == Join(Slice(Sorted(lang_iter), 3), <<", ">>)
               t == time_str(summary.duration_minutes)
           IN IF twitter_style = <<"devlog">>
              THEN <<<<"devlog: ">> \o t \o <<" deep in ">> \o langs
                     \o <<"\n\nSession recap [thread]">>>>
              ELSE <<t \o <<" building with ">> \o langs
                     \o <<"\n\nWhat I shipped [down]">>>>
      ELSE <<>>)

project_or_default(summary) ==
  IF summary.project_name # <<>> THEN summary.project_name
  ELSE <<"my project">>

\* mutant: a thread is generated for every Summary
has_content_always(summary) == TRUE

\* mutant: the languages used do not count as content
has_content_no_languages(summary) ==
  \/ summary.git_commits # <<>>
  \/ summary.files_created # <<>>
  \/ summary.errors_fixed > 0
  \/ summary.tests_run

has_content(summary) ==
  \/ summary.git_commits # <<>>
  \/ summary.files_created # <<>>
  \/ summary.errors_fixed > 0
  \/ summary.tests_run
  \/ Cardinality(summary.languages_used) > 0

\* mutant: the last candidate hook is used
chosen_hook_last(hooks) == hooks[Len(hooks)]

chosen_hook(hooks) == hooks[1]

thread_posts(summary, twitter_style, lang_iter) ==
  LET hooks == hook_options(summary, twitter_style, lang_iter)
      project == project_or_default(summary)
      files == Slice(summary.files_created, 5)
      commits == Slice(summary.git_commits, 3)
  IN IF ~has_content(summary) THEN <<>>
     ELSE (IF hooks # <<>> THEN <<chosen_hook(hooks)>>
           ELSE IF twitter_style = <<"devlog">>
                THEN <<<<"devlog: Working on ">> \o project
                       \o <<"\n\nProgress update [thread]">>>>
                ELSE <<<<"Quick session on ">> \o project
                       \o <<"\n\nWhat changed [down]">>>>)
          \o (IF summary.languages_used # {}
              THEN <<<<"[pc] Tech stack: ">>
                     \o Join(Slice(Sorted(lang_iter), 4), <<", ">>)>>
              ELSE <<>>)
          \o (IF summary.files_created # <<>>
              THEN <<<<"[memo] New files:\n">>
                     \o Join([i \in 1..Len(files) |->
                                <<"  * ">> \o PathName(files[i])], <<"\n">>)>>
              ELSE <<>>)
          \o (IF summary.git_commits # <<>>
              THEN <<<<"[package] Commits:\n">>
                     \o Join([i \in 1..Len(commits) |->
                                <<"  [done] ">> \o Slice(commits[i], 60)],
                             <<"\n">>)>>
              ELSE <<>>)
          \o (IF summary.tests_run
              THEN <<<<"[tests] Tests: All passing [done]\n\nNothing beats that green checkmark feeling.">>>>
              ELSE <<>>)
          \o (IF summary.errors_fixed > 0
              THEN <<<<"[bug] Fixed ", ToString(summary.errors_fixed), " ">>
                     \o plural(summary.errors_fixed, <<"bug">>)
                     \o <<"\n\nDebugging is just detective work with code.">>>>
              ELSE <<>>)
          \o <<<<"What are you building today?">>>>

RECURSIVE dedupe_from(_, _)
dedupe_from(strings, seen) ==
  IF strings = <<>> THEN <<>>
  ELSE IF Head(strings) # <<>> /\ Head(strings) \notin seen
       THEN <<Head(strings)>>
            \o dedupe_from(Tail(strings), seen \cup {Head(strings)})
  ELSE dedupe_from(Tail(strings), seen)

dedupe(strings) == dedupe_from(strings, {})

Opt(cond, string) == IF cond THEN <<string>> ELSE <<>>

bullet_lines(summary) ==
  Opt(summary.git_commits # <<>>,
      <<"* Shipped: ">> \o Slice(summary.git_commits[1], 100))
  \o Opt(summary.files_created # <<>>,
         <<"* Created ", ToString(Len(summary.files_created)), " ">>
         \o plural(Len(summary.files_created), <<"new file">>))
  \o Opt(summary.files_modified # <<>>,
         <<"* Updated ", ToString(Len(summary.files_modified)), " ">>
         \o plural(Len(summary.files_modified), <<"existing file">>))
  \o Opt(summary.errors_fixed # 0,
         <<"* Fixed ", ToString(summary.errors_fixed), " ">>
         \o plural(summary.errors_fixed, <<"bug">>))
  \o Opt(summary.tests_run, <<"* Ran tests [done]">>)

bullets_block(summary) ==
  IF bullet_lines(summary) # <<>> THEN Join(bullet_lines(summary), <<"\n">>)
  ELSE <<"* Made meaningful progress">>

story_intros(summary, project, t, langs) ==
  Opt(summary.errors_fixed # 0,
      <<"Started with a few errors in ">> \o project
      \o <<" and ended with a cleaner build.">>)
  \o Opt(summary.tests_run,
         <<"Leaned on tests to keep ">> \o project
         \o <<" moving in the right direction.">>)
  \o Opt(t # <<>>,
         t \o <<" on ">> \o project
         \o <<" - the kind of steady progress that adds up.">>)
  \o Opt(langs # <<>>,
         <<"Worked through a set of improvements in ">> \o project
         \o <<" (">> \o langs \o <<").">>)
  \o <<<<"Another step forward on ">> \o project \o <<".">>>>

wins_metrics(summary, t) ==
  Opt(t # <<>>, t)
  \o Opt(summary.files_created # <<>>,
         <<ToString(Len(summary.files_created)), " ">>
         \o plural(Len(summary.files_created), <<"new file">>))
  \o Opt(summary.errors_fixed # 0,
         <<ToString(summary.errors_fixed), " ">>
         \o plural(summary.errors_fixed, <<"bug">>) \o <<" fixed">>)
  \o Opt(summary.tests_run, <<"tests run [done]">>)

wins_intros(summary, project, t, langs, first_commit) ==
  LET metrics_line == Join(wins_metrics(summary, t), <<" * ">>)
  IN Opt(metrics_line # <<>>,
         project \o <<" - ">> \o metrics_line \o <<".">>)
     \o Opt(first_commit # <<>>,
            <<"Latest shipped change in ">> \o project \o <<": ">>
            \o first_commit \o <<".">>)
     \o Opt(langs # <<>>,
            project \o <<" + ">> \o langs \o <<" + consistent iteration.">>)
     \o <<<<"Keeping momentum on ">> \o project \o <<".">>>>

professional_intros(summary, project, t, langs, first_commit) ==
  Opt(first_commit # <<>>,
      <<"Quick update on ">> \o project \o <<": shipped \"">>
      \o first_commit \o <<"\".">>)
  \o Opt(first_commit # <<>>,
         project \o <<" update - shipped \"">> \o first_commit \o <<"\".">>)
  \o Opt(langs # <<>>,
         <<"Made progress on ">> \o project \o <<" using ">> \o langs
         \o <<".">>)
  \o Opt(t # <<>>, t \o <<" of focused work on ">> \o project \o <<".">>)
  \o <<<<"Incremental improvements to ">> \o project
         \o <<" - moving it forward.">>>>

medium_posts(summary, linkedin_style, hashtags, lang_iter) ==
  LET project == project_or_default(summary)
      langs == Join(Slice(Sorted(lang_iter), 3), <<", ">>)
      t == time_str(summary.duration_minutes)
      first_commit == IF summary.git_commits # <<>>
                      THEN Slice(summary.git_commits[1], 100) ELSE <<>>
      block == bullets_block(summary)
      linkedin_hashtags == Join(Slice(hashtags, 6), <<" ">>)
      headline_options ==
        IF linkedin_style = <<"story">>
        THEN <<"A small win (and a lesson)",
               "A quick story from today's build",
               "One of those satisfying sessions">>
        ELSE IF linkedin_style = <<"wins">>
        THEN <<"Progress, in numbers", "Session snapshot",
               "Quick status update">>
        ELSE <<"Build update", "Progress update", "Product update",
               "Engineering update">>
      intros ==
        Slice(dedupe(
          IF linkedin_style = <<"story">>
          THEN story_intros(summary, project, t, langs)
          ELSE IF linkedin_style = <<"wins">>
          THEN wins_intros(summary, project, t, langs, first_commit)
          ELSE professional_intros(summary, project, t, langs, first_commit)),
          3)
      heading ==
        IF linkedin_style = <<"story">> THEN <<"\n\nWhat changed:\n">>
        ELSE IF linkedin_style = <<"wins">> THEN <<"\n\nHighlights:\n">>
        ELSE <<"\n\nKey outcomes:\n">>
      closing ==
        IF linkedin_style = <<"story">>
        THEN <<"\n\nCurious what you're building right now - what's on your plate this week?\n\n">>
        ELSE IF linkedin_style = <<"wins">> THEN <<"\n\n">>
        ELSE <<"\n\nWhat are you building this week?\n\n">>
  IN [i \in 1..Len(intros) |->
        <<headline_options[((i - 1) % Len(headline_options)) + 1], "\n\n">>
        \o intros[i] \o heading \o block \o closing \o linkedin_hashtags]

highlight_emoji(category) ==
  CASE category = "feature" -> "[sparkles]"
    [] category = "fix" -> "[bug]"
    [] category = "test" -> "[tests]"
    [] category = "milestone" -> "[target]"
    [] category = "refactor" -> "[recycle]"
    [] category = "docs" -> "[books]"
    [] OTHER -> "*"

highlight_lines(summary) ==
  LET hs == Slice(summary.highlights, 5)
  IN [i \in 1..Len(hs) |->
        <<highlight_emoji(hs[i].category), " ">> \o hs[i].description
        \o <<"\n">>]

long_post(summary, hashtags, lang_iter) ==
  <<"Today's build session [tools]\n\n",
    ToString(summary.duration_minutes), " minutes of focused coding on ">>
  \o project_or_default(summary) \o <<".\n\nThe journey:\n">>
  \o Flatten(highlight_lines(summary))
  \o (IF summary.languages_used # {}
      THEN <<"\nTech: ">> \o Join(Sorted(lang_iter), <<", ">>) \o <<"\n">>
      ELSE <<>>)
  \o <<"\nBuilding in public means sharing the journey - the wins, the bugs, and everything in between.\n\nWhat's your current project? Drop a comment! [down]\n\n">>
  \o Join(hashtags, <<" ">>) \o <<"\n">>

\* lang_iter is the order in which the set summary.languages_used iterates
generate_posts(summary, twitter_style_arg, linkedin_style_arg, lang_iter) ==
  LET twitter_style == normal_style(twitter_style_arg, <<"devlog">>)
      linkedin_style == normal_style(linkedin_style_arg, <<"professional">>)
      hashtags == make_hashtags(summary, lang_iter)
  IN [short |-> short_posts(summary, twitter_style),
      medium |-> medium_posts(summary, linkedin_style, hashtags, lang_iter),
      thread |-> thread_posts(summary, twitter_style, lang_iter),
      long |-> <<long_post(summary, hashtags, lang_iter)>>,
      hashtags |-> hashtags]

NoPosts ==
  [short |-> <<>>, medium |-> <<>>, thread |-> <<>>, long |-> <<>>,
   hashtags |-> <<>>]

(***************************************************************************)
(* Inputs of the model                                                     *)
(***************************************************************************)
SeqsUpTo(S, n) == UNION {[1..k -> S] : k \in 0..n}

PathChars == {"a", " ", "\"", "'", "/", "\\"}
PathInputs == SeqsUpTo(PathChars, MaxPathLen)

ProjectTokens ==
  {<<"Users">>, <<"alice">>, <<"dev">>, <<"myapp">>, <<" ">>, <<>>}
RawProjectDirs == {Join(ts, <<"-">>) : ts \in SeqsUpTo(ProjectTokens, MaxTokens)}
Fallbacks ==
  {None, Some(<<>>), Some(<<" ">>), Some(<<"local-repo">>),
   Some(<<" ", "local-repo">>)}

Timestamp(hh, mm, ss, tz) == <<"2024-01-01T", hh, ":", mm, ":", ss>> \o tz

ToolUse(name, tool_input) ==
  [EmptyObj EXCEPT !.type = Some("tool_use"), !.name = Some(name),
                   !.tool_input = Some(tool_input)]

BashCommand(command) ==
  ToolUse("Bash", [NoInput EXCEPT !.command = Some(JStr(command))])

NonObjLine == GoodLine(NonObj)
UserAt00 ==
  GoodLine([EmptyObj EXCEPT !.type = Some("user"),
              !.timestamp = Some(JStr(Timestamp("10", "00", "00", <<"Z">>)))])
UserAt12 ==
  GoodLine([EmptyObj EXCEPT !.type = Some("user"),
              !.timestamp = Some(JStr(Timestamp("10", "12", "30", <<"Z">>)))])
IntTimestamp ==
  GoodLine([EmptyObj EXCEPT !.timestamp = Some(JInt(<<"5">>))])
UserMessage ==
  GoodLine([EmptyObj EXCEPT !.type = Some("user"),
              !.content = Some(StrContent(<<"error", " ", "fixed">>))])
AssistantNote ==
  GoodLine([EmptyObj EXCEPT !.type = Some("assistant"),
              !.content = Some(StrContent(<<"error", " ", "again">>))])
AssistantFixed ==
  GoodLine([EmptyObj EXCEPT !.role = Some("assistant"),
              !.content = Some(ListContent(<<TextItem(<<"Error">>),
                                             NonDictItem,
                                             TextItem(<<"fixed">>)>>))])
WriteMain ==
  GoodLine(ToolUse("Write",
    [NoInput EXCEPT !.file_path =
       Some(JStr(<<"/", "Users", "/", "alice", "/", "app", "/", "src", "/",
                   "main", ".", "py">>))]))
CreateB ==
  GoodLine([EmptyObj EXCEPT !.type = Some("tool_use"),
              !.tool_name = Some("create_file"),
              !.input = Some([NoInput EXCEPT !.path =
                 Some(JStr(<<"C:", "\\", "dev", "\\", "b", ".", "tsx">>))])])
EditMain ==
  GoodLine([EmptyObj EXCEPT !.name = Some("Edit"),
              !.tool_input = Some([NoInput EXCEPT !.file_path =
                 Some(JStr(<<"\"", "src", "/", "main", ".", "PY", "\"">>))])])
CommitLogin ==
  GoodLine(BashCommand(<<"git", " ", "commit", " ", "-", "m", " ", "\"",
                         "add", " ", "login", "\"">>))
CommitFixTest ==
  GoodLine(BashCommand(<<"pytest", " ", "&&", " ", "git", " ", "commit", " ",
                         "-", "m", " ", "'", "fix", "'">>))
CommitNoMessage ==
  GoodLine(BashCommand(<<"git", " ", "commit", " ", "--amend">>))
WriteNonMapInput == GoodLine(ToolUse("Write", NonMapInput))
BashIntCommand ==
  GoodLine(ToolUse("Bash", [NoInput EXCEPT !.command = Some(JInt(<<"5">>))]))

Lines ==
  {BadLine, BlankLine, NonObjLine, UserAt00, UserAt12, IntTimestamp,
   UserMessage, AssistantNote, AssistantFixed, WriteMain, CreateB, EditMain, CommitLogin,
   CommitFixTest, CommitNoMessage, WriteNonMapInput, BashIntCommand}

MainProjectDirs == {<<"Users", "-", "alice", "-", "dev", "-", "myapp">>}
MainFallbacks == {Some(<<>>), Some(<<"local-repo">>)}
MainStyles == {<<None, None>>, <<Some(<<"ship">>), Some(<<"story">>)>>}

(***************************************************************************)
(* State                                                                   *)
(***************************************************************************)
VARIABLES
  pc,               \* position in main() / in the call under study
  raw_path,         \* argument of safe_display_path
  redacted,         \* successive results of safe_display_path
  raw_project_dir,  \* project directory name of the session file
  fallback,         \* fallback= argument of safe_project_name
  project_name,     \* result of safe_project_name
  lines,            \* lines of the transcript file read so far
  messages,         \* parse_session_jsonl: the list being built
  idx,              \* extract_highlights: records consumed by the loop
  acc,              \* extract_highlights: its local accumulators
  summary,          \* the SessionSummary
  styles,           \* <<twitter_style, linkedin_style>> arguments
  posts,            \* result of generate_posts
  plugin_root,      \* CLAUDE_PLUGIN_ROOT is set
  transcript,       \* the lines of the session's transcript file
  activity_file,    \* content of .session_activity.json, None if absent
  reminder,         \* the session-end hook printed the reminder
  responses         \* number of assistant responses of the session

vars ==
  <<pc, raw_path, redacted, raw_project_dir, fallback, project_name, lines,
    messages, idx, acc, summary, styles, posts, plugin_root, transcript,
    activity_file, reminder, responses>>

session_vars ==
  <<plugin_root, transcript, activity_file, reminder, responses>>
sanitizer_vars == <<raw_path, redacted>>
project_vars == <<raw_project_dir, fallback>>
pipeline_vars == <<lines, messages, idx, acc, summary, styles, posts>>

NoSession ==
  /\ plugin_root = FALSE
  /\ transcript = <<>>
  /\ activity_file = None
  /\ reminder = FALSE
  /\ responses = 0

InitRest ==
  /\ NoSession
  /\ lines = <<>>
  /\ messages = <<>>
  /\ idx = 0
  /\ acc = InitAcc
  /\ summary = NoSummary
  /\ styles = <<None, None>>
  /\ posts = NoPosts

(***************************************************************************)
(* main(): project name, parse, extract, generate                          *)
(***************************************************************************)
Init ==
  /\ pc = "start"
  /\ raw_path = <<>>
  /\ redacted = <<>>
  /\ raw_project_dir \in MainProjectDirs
  /\ fallback \in MainFallbacks
  /\ project_name = <<>>
  /\ InitRest

ComputeProjectName(from, to) ==
  /\ pc = from
  /\ project_name' = safe_project_name(raw_project_dir, fallback)
  /\ pc' = to
  /\ UNCHANGED session_vars
  /\ UNCHANGED <<sanitizer_vars, project_vars, pipeline_vars>>

NameProject == ComputeProjectName("start", "parse")

ReadLine ==
  /\ pc = "parse"
  /\ Len(lines) < MaxLines
  /\ \E line \in Lines :
       /\ lines' = Append(lines, line)
       /\ messages' = parse_line(messages, line)
  /\ UNCHANGED session_vars
  /\ UNCHANGED <<pc, sanitizer_vars, project_vars, project_name, idx, acc,
                 summary, styles, posts>>

EndOfFile ==
  /\ pc = "parse"
  /\ pc' = "extract"
  /\ UNCHANGED session_vars
  /\ UNCHANGED <<sanitizer_vars, project_vars, project_name, pipeline_vars>>

ExtractRecord ==
  /\ pc = "extract"
  /\ idx < Len(messages)
  /\ ~record_raises(messages[idx + 1])
  /\ acc' = process_record(acc, messages[idx + 1])
  /\ idx' = idx + 1
  /\ UNCHANGED session_vars
  /\ UNCHANGED <<pc, sanitizer_vars, project_vars, project_name, lines,
                 messages, summary, styles, posts>>

ExtractRaise ==
  /\ pc = "extract"
  /\ idx < Len(messages)
  /\ record_raises(messages[idx + 1])
  /\ pc' = "raised"
  /\ UNCHANGED session_vars
  /\ UNCHANGED <<sanitizer_vars, project_vars, project_name, pipeline_vars>>

Summarize ==
  /\ pc = "extract"
  /\ idx = Len(messages)
  /\ ~duration_raises(acc)
  /\ \E created_list \in Orders(acc.files_created),
        modified_list \in Orders(acc.files_modified) :
       summary' = make_summary(acc, created_list, modified_list)
  /\ pc' = "generate"
  /\ UNCHANGED session_vars
  /\ UNCHANGED <<sanitizer_vars, project_vars, project_name, lines, messages,
                 idx, acc, styles, posts>>

SummarizeRaise ==
  /\ pc = "extract"
  /\ idx = Len(messages)
  /\ duration_raises(acc)
  /\ pc' = "raised"
  /\ UNCHANGED session_vars
  /\ UNCHANGED <<sanitizer_vars, project_vars, project_name, pipeline_vars>>

GenerateWith(StyleSet) ==
  /\ pc = "generate"
  /\ \E st \in StyleSet, lang_iter \in Orders(summary.languages_used) :
       /\ styles' = st
       /\ summary' = [summary EXCEPT !.project_name = project_name]
       /\ posts' = generate_posts(summary', st[1], st[2], lang_iter)
  /\ pc' = "done"
  /\ UNCHANGED session_vars
  /\ UNCHANGED <<sanitizer_vars, project_vars, project_name, lines, messages,
                 idx, acc>>

Generate == GenerateWith(MainStyles)

Next ==
  \/ NameProject
  \/ ReadLine
  \/ EndOfFile
  \/ ExtractRecord
  \/ ExtractRaise
  \/ Summarize
  \/ SummarizeRaise
  \/ Generate

Spec == Init /\ [][Next]_vars

(***************************************************************************)
(* safe_display_path applied to a path, then to its own result             *)
(***************************************************************************)
InitPath ==
  /\ pc = "path"
  /\ raw_path \in PathInputs
  /\ redacted = <<>>
  /\ raw_project_dir = <<>>
  /\ fallback = None
  /\ project_name = <<>>
  /\ InitRest

RedactPath ==
  /\ pc = "path"
  /\ Len(redacted) < 2
  /\ redacted' = Append(redacted,
                        safe_display_path(IF redacted = <<>> THEN raw_path
                                          ELSE redacted[Len(redacted)]))
  /\ UNCHANGED session_vars
  /\ UNCHANGED <<pc, raw_path, project_vars, project_name, pipeline_vars>>

NextPath == RedactPath

SpecPath == InitPath /\ [][NextPath]_vars

(***************************************************************************)
(* safe_project_name on its own                                            *)
(***************************************************************************)
InitProject ==
  /\ pc = "project"
  /\ raw_path = <<>>
  /\ redacted = <<>>
  /\ raw_project_dir \in RawProjectDirs
  /\ fallback \in Fallbacks
  /\ project_name = <<>>
  /\ InitRest

RedactProject == ComputeProjectName("project", "named")

NextProject == RedactProject

SpecProject == InitProject /\ [][NextProject]_vars

(***************************************************************************)
(* generate_posts on the Summaries extract_highlights can return           *)
(***************************************************************************)
LongMessage ==
  [i \in 1..101 |-> IF i <= 60 THEN "x" ELSE IF i <= 80 THEN "y"
                    ELSE IF i <= 100 THEN "z" ELSE "!"]
TaggedMessage == <<"wip", " ", "#", "BuildingInPublic">>
CommitMessages == {LongMessage, TaggedMessage}
\* commit lists of every length up to n in which the two messages alternate
CommitLists(n) ==
  {[i \in 1..k |-> IF i % 2 = 1 THEN pair[1] ELSE pair[2]] :
     k \in 0..n,
     pair \in {p \in CommitMessages \X CommitMessages : p[1] # p[2]}}

FileOrders ==
  {<<<<"main", ".", "py">>, <<"b", ".", "tsx">>, <<"Makefile">>,
     <<"notes">>>>,
   <<<<"notes">>, <<"Makefile">>, <<"b", ".", "tsx">>,
     <<"main", ".", "py">>>>}
CreatedLists == {Slice(o, k) : o \in FileOrders, k \in 0..MaxCreated}
ModifiedLists == {<<>>, <<<<"util", ".", "rs">>>>}
Durations == {-3, 0, 12, 75}

LanguagesOf(files) ==
  UNION {lang_extensions(Lower(PathSuffix(files[i]))) : i \in 1..Len(files)}

SummaryOf(created, modified, commits, errors, tests, minutes) ==
  [session_id |-> <<>>,
   project_name |-> <<>>,
   duration_minutes |-> minutes,
   highlights |-> make_highlights(created, commits, tests, errors),
   files_created |-> created,
   files_modified |-> modified,
   tests_run |-> tests,
   git_commits |-> commits,
   errors_fixed |-> errors,
   total_tool_calls |-> Len(created) + Len(modified) + Len(commits)
                          + (IF tests THEN 1 ELSE 0),
   languages_used |-> LanguagesOf(created \o modified)]

Summaries ==
  {SummaryOf(created, modified, commits, errors, tests, minutes) :
     created \in CreatedLists, modified \in ModifiedLists,
     commits \in CommitLists(MaxCommits),
     errors \in 0..MaxErrors, tests \in BOOLEAN, minutes \in Durations}

StylePairs ==
  {<<None, None>>,
   <<Some(<<>>), Some(<<"professional">>)>>,
   <<Some(<<"devlog">>), Some(<<"story">>)>>,
   <<Some(<<"minimal">>), Some(<<"wins">>)>>,
   <<Some(<<"ship">>), Some(<<"story">>)>>,
   <<Some(<<"fancy">>), Some(<<"wins">>)>>,
   <<Some(<<" ", "Minimal">>), None>>}

InitPosts ==
  /\ NoSession
  /\ pc = "generate"
  /\ raw_path = <<>>
  /\ redacted = <<>>
  /\ raw_project_dir = <<>>
  /\ fallback = None
  /\ project_name \in {<<>>, <<"myapp">>}
  /\ lines = <<>>
  /\ messages = <<>>
  /\ idx = 0
  /\ acc = InitAcc
  /\ summary \in Summaries
  /\ styles = <<None, None>>
  /\ posts = NoPosts

GeneratePosts == GenerateWith(StylePairs)

NextPosts == GeneratePosts

SpecPosts == InitPosts /\ [][NextPosts]_vars

(***************************************************************************)
(* The end of extract_highlights on the accumulators its loop can leave    *)
(***************************************************************************)
SampleFiles ==
  {<<"a", ".", "py">>, <<"b", ".", "py">>, <<"c", ".", "py">>,
   <<"d", ".", "py">>, <<"e", ".", "py">>, <<"f", ".", "py">>}
SampleSets ==
  {{}, {<<"a", ".", "py">>},
   {<<"a", ".", "py">>, <<"b", ".", "py">>, <<"c", ".", "py">>,
    <<"d", ".", "py">>, <<"e", ".", "py">>},
   SampleFiles}
History(k) == [i \in 1..k |-> <<"commit ", ToString(i)>>]

LoopResults ==
  {[InitAcc EXCEPT !.files_created = created,
                   !.languages_used = IF created = {} THEN {} ELSE {<<"Python">>},
                   !.git_commits = History(k),
                   !.tests_run = tests,
                   !.errors_fixed = errors,
                   !.total_tool_calls =
                      Cardinality(created) + k + (IF tests THEN 1 ELSE 0)] :
     created \in SampleSets, k \in 0..MaxHistory, tests \in BOOLEAN,
     errors \in 0..MaxErrors}

InitHighlights ==
  /\ NoSession
  /\ pc = "extract"
  /\ raw_path = <<>>
  /\ redacted = <<>>
  /\ raw_project_dir = <<>>
  /\ fallback = None
  /\ project_name = <<>>
  /\ lines = <<>>
  /\ messages = <<>>
  /\ idx = 0
  /\ acc \in LoopResults
  /\ summary = NoSummary
  /\ styles = <<None, None>>
  /\ posts = NoPosts

NextHighlights == Summarize

SpecHighlights == InitHighlights /\ [][NextHighlights]_vars

(***************************************************************************)
(* activity_logger.py and session_end_hook.py over one session             *)
(*                                                                         *)
(* pc is "respond" while the assistant may respond or the session may end, *)
(* "log" while the Stop hook has yet to run, "ended" after the session-end *)
(* hook.                                                                   *)
(***************************************************************************)
TailWindow == 20

NewActivity ==
  [files_modified |-> 0, files_created |-> 0, git_commits |-> 0,
   commands_run |-> 0, responses |-> 0]

\* one pass of the loop body over a transcript line; an exception in the
\* body keeps what was counted before it and continues with the next line
log_line(activity, line) ==
  LET msg == Get(json_loads(line))
      tool_name == tool_name_of(msg)
      tool_input == IF msg.tool_input # None THEN Get(msg.tool_input)
                    ELSE NoInput
      command == command_of(tool_input)
      counted == [activity EXCEPT !.commands_run = @ + 1]
  IN IF json_loads(line) = None THEN activity
     ELSE IF msg.t # "dict" THEN activity
     ELSE IF tool_name \in write_tools
          THEN [activity EXCEPT !.files_created = @ + 1]
     ELSE IF tool_name \in edit_tools
          THEN [activity EXCEPT !.files_modified = @ + 1]
     ELSE IF tool_name = "Bash"
          THEN IF tool_input.t # "dict" \/ command.t # "str" THEN counted
               ELSE IF IsInfix(<<"git", " ", "commit">>, command.s)
                    THEN [counted EXCEPT !.git_commits = @ + 1]
               ELSE counted
     ELSE activity

RECURSIVE log_lines(_, _)
log_lines(activity, ls) ==
  IF ls = <<>> THEN activity
  ELSE log_lines(log_line(activity, Head(ls)), Tail(ls))

\* activity_logger.main with the transcript path of the session
log_activity(file, ls) ==
  LET activity == IF file # None THEN Get(file) ELSE NewActivity
      responded == [activity EXCEPT !.responses = @ + 1]
  IN log_lines(responded, LastN(ls, TailWindow))

\* session_end_hook.main: has_activity
has_activity(file) ==
  /\ file # None
  /\ \/ Get(file).files_modified > 0
     \/ Get(file).files_created > 0
     \/ Get(file).git_commits > 0

BashListing == GoodLine(BashCommand(<<"ls">>))
SessionRecords ==
  {WriteMain, CreateB, EditMain, CommitLogin, CommitNoMessage, BashListing,
   BashIntCommand, UserMessage, BadLine}
Filler(n) == [i \in 1..n |-> UserMessage]
\* what one response appends: a record and the messages that follow it
Batches ==
  {<<r>> \o Filler(n) :
     r \in SessionRecords, n \in {0, TailWindow - 1, TailWindow}}

InitSession ==
  /\ pc = "respond"
  /\ raw_path = <<>>
  /\ redacted = <<>>
  /\ raw_project_dir = <<>>
  /\ fallback = None
  /\ project_name = <<>>
  /\ lines = <<>>
  /\ messages = <<>>
  /\ idx = 0
  /\ acc = InitAcc
  /\ summary = NoSummary
  /\ styles = <<None, None>>
  /\ posts = NoPosts
  /\ plugin_root \in BOOLEAN
  /\ transcript = <<>>
  /\ activity_file = None
  /\ reminder = FALSE
  /\ responses = 0

\* the assistant responds: the transcript grows
Respond ==
  /\ pc = "respond"
  /\ responses < MaxResponses
  /\ responses' = responses + 1
  /\ \E batch \in Batches : transcript' = transcript \o batch
  /\ pc' = "log"
  /\ UNCHANGED <<plugin_root, activity_file, reminder>>
  /\ UNCHANGED <<sanitizer_vars, project_vars, project_name, pipeline_vars>>

\* the Stop hook runs activity_logger.py
LogActivity ==
  /\ pc = "log"
  /\ activity_file' = IF plugin_root
                      THEN Some(log_activity(activity_file, transcript))
                      ELSE activity_file
  /\ pc' = "respond"
  /\ UNCHANGED <<plugin_root, transcript, reminder, responses>>
  /\ UNCHANGED <<sanitizer_vars, project_vars, project_name, pipeline_vars>>

\* the session ends: session_end_hook.py
EndSession ==
  /\ pc = "respond"
  /\ reminder' = (plugin_root /\ has_activity(activity_file))
  /\ activity_file' = None
  /\ pc' = "ended"
  /\ UNCHANGED <<plugin_root, transcript, responses>>
  /\ UNCHANGED <<sanitizer_vars, project_vars, project_name, pipeline_vars>>

NextSession == Respond \/ LogActivity \/ EndSession

SpecSession == InitSession /\ [][NextSession]_vars

(***************************************************************************)
(* Properties                                                              *)
(***************************************************************************)
RECURSIVE ParsedValues(_)
ParsedValues(ls) ==
  IF ls = <<>> THEN <<>>
  ELSE IF Head(ls).syntax = "json"
       THEN <<Head(ls).value>> \o ParsedValues(Tail(ls))
  ELSE ParsedValues(Tail(ls))

AllMalformed(ls) == \A i \in 1..Len(ls) : ls[i].syntax # "json"

ZeroSummary(sm) ==
  /\ sm.files_created = <<>> /\ sm.files_modified = <<>>
  /\ sm.git_commits = <<>> /\ sm.highlights = <<>>
  /\ sm.languages_used = {}
  /\ sm.errors_fixed = 0 /\ sm.total_tool_calls = 0
  /\ sm.tests_run = FALSE /\ sm.duration_minutes = 0

\* C1: for every transcript, parsing followed by extraction completes
\* without raising: the records are the parseable lines in input order, and
\* an all-malformed transcript yields the Summary with every counter at its
\* zero value and duration 0.
C1_NeverRaises ==
  /\ pc # "raised"
  /\ messages = ParsedValues(lines)
  /\ (pc \in {"generate", "done"} /\ AllMalformed(lines)
        => ZeroSummary(summary))

\* C2: generate_posts returns the same short, thread, medium, long and
\* hashtags lists whatever order the set languages_used iterates in.
C2_Deterministic ==
  pc = "done" =>
    \A lang_iter \in Orders(summary.languages_used) :
       generate_posts(summary, styles[1], styles[2], lang_iter) = posts

C2_Witness ==
  /\ pc = "done"
  /\ Cardinality(summary.languages_used) >= 3
  /\ posts.thread # <<>>
  /\ Len(posts.medium) = 3

\* C3: path redaction is idempotent: redacting the result of a redaction
\* returns it unchanged.
C3_Idempotent ==
  Len(redacted) = 2 => redacted[2] = redacted[1]

\* C4: safe_project_name returns the fallback whenever the fallback is
\* non-empty, whatever the raw value; with no fallback the raw value
\* "Users-alice-dev-myapp" yields "myapp".
C4_FallbackOrTail ==
  pc = "named" =>
    /\ (fallback # None /\ Get(fallback) # <<>>
          => project_name = Get(fallback))
    /\ (fallback = None
          /\ raw_project_dir
               = <<"Users", "-", "alice", "-", "dev", "-", "myapp">>
          => project_name = <<"myapp">>)

NoToolUse(ms) == \A i \in 1..Len(ms) : ~is_tool_use(ms[i])
NoTimestamps(ms) == \A i \in 1..Len(ms) : ms[i].timestamp = None
CountsAsFix(msg) == process_assistant(InitAcc, msg).errors_fixed = 1

HighlightMarks ==
  {"[sparkles]", "[bug]", "[tests]", "[target]", "[recycle]", "[books]", "*"}

EmptyPosts ==
  /\ posts.thread = <<>>
  /\ posts.short = <<>>
  /\ Len(posts.long) = 1
  /\ \A k \in 1..Len(posts.long[1]) : posts.long[1][k] \notin HighlightMarks

\* C5 as stated: a transcript with zero tool-use records and zero
\* timestamped records, whatever else it contains, yields an empty thread,
\* no short post and one long-form post without highlight lines.
C5_Original ==
  pc = "done" /\ NoToolUse(messages) /\ NoTimestamps(messages) => EmptyPosts

\* C5 amended: a transcript of object records with zero tool-use records,
\* zero timestamped records and no assistant record that the error
\* heuristic counts yields an empty thread, no short post and one long-form
\* post without highlight lines.
C5_Amended ==
  pc = "done" /\ NoToolUse(messages) /\ NoTimestamps(messages)
    /\ (\A i \in 1..Len(messages) : ~CountsAsFix(messages[i]))
  => EmptyPosts

C5_Witness ==
  /\ pc = "done"
  /\ NoToolUse(messages) /\ NoTimestamps(messages)
  /\ \A i \in 1..Len(messages) : ~CountsAsFix(messages[i])
  /\ \E i, j \in 1..Len(messages) :
       is_assistant(messages[i]) /\ messages[j].type = Some("user")
  /\ EmptyPosts

IsTestBash(msg) ==
  /\ is_tool_use(msg)
  /\ tool_name_of(msg) = "Bash"
  /\ \E t \in test_keywords : IsInfix(t, command_of(tool_input_of(msg)).s)

\* C6: during the extraction pass tests_run starts false, is true exactly
\* when a Bash record with a test-runner keyword has been processed, and
\* once true stays true after every later record.
C6_TestsRunMonotonic ==
  /\ [](idx = 0 => ~acc.tests_run)
  /\ [](acc.tests_run <=> \E i \in 1..idx : IsTestBash(messages[i]))
  /\ [][acc.tests_run => acc'.tests_run]_vars

C6_Witness ==
  /\ pc = "extract"
  /\ idx = 3
  /\ IsTestBash(messages[1])
  /\ tool_name_of(messages[2]) = "Bash" /\ ~IsTestBash(messages[2])
  /\ ~is_tool_use(messages[3])
  /\ acc.tests_run

ToolSignals(commits, created) ==
  (IF Len(commits) > 0 THEN 1 ELSE 0) + (IF created # {} THEN 1 ELSE 0)

\* C7: total_tool_calls is at least the number of short-post signals that
\* come from tool-derived counters (commits present, created files present)
\* and never decreases as records are processed.
C7_ToolCallsBound ==
  /\ [](acc.total_tool_calls
          >= ToolSignals(acc.git_commits, acc.files_created))
  /\ [](pc \in {"generate", "done"} =>
          summary.total_tool_calls
            >= ToolSignals(summary.git_commits,
                           {summary.files_created[k] :
                              k \in 1..Len(summary.files_created)}))
  /\ [][acc'.total_tool_calls >= acc.total_tool_calls]_vars

C7_Witness ==
  /\ pc = "done"
  /\ summary.total_tool_calls = 2
  /\ summary.git_commits # <<>>
  /\ summary.files_created # <<>>
  /\ Len(posts.short) >= 2

Separators == {"/", "\\"}
Padding == Quotes \cup Whitespace \cup Separators

\* f is the last separator-free segment of path: it is preceded by the start
\* of the path, a separator or its quoting, and followed only by quoting,
\* whitespace and separators
IsFinalSegment(f, path) ==
  /\ \A k \in 1..Len(f) : f[k] \notin Separators
  /\ \E m \in 0..(Len(path) - Len(f)) :
       /\ SubSeq(path, m + 1, m + Len(f)) = f
       /\ m > 0 => path[m] \in Padding
       /\ \A k \in (m + Len(f) + 1)..Len(path) : path[k] \in Padding

PathOfRecord(msg) == file_path_of(tool_input_of(msg)).s

FromRecordOf(f, tools) ==
  \E i \in 1..idx :
     /\ is_tool_use(messages[i])
     /\ tool_name_of(messages[i]) \in tools
     /\ IsFinalSegment(f, PathOfRecord(messages[i]))

\* C8: every element of files_created is the final path segment, free of
\* '/' and '\', of the path of a processed write-tool record, and every
\* element of files_modified that of a processed edit-tool record; the
\* Summary lists hold exactly these elements.
C8_BasenamesOnly ==
  /\ \A f \in acc.files_created : FromRecordOf(f, write_tools)
  /\ \A f \in acc.files_modified : FromRecordOf(f, edit_tools)
  /\ pc \in {"generate", "done"} =>
       /\ {summary.files_created[k] : k \in 1..Len(summary.files_created)}
            = acc.files_created
       /\ {summary.files_modified[k] : k \in 1..Len(summary.files_modified)}
            = acc.files_modified

C8_Witness ==
  /\ pc = "done"
  /\ Len(summary.files_created) = 2
  /\ Len(summary.files_modified) = 1
  /\ \E i \in 1..Len(messages) :
       \E k \in 1..Len(PathOfRecord(messages[i])) :
          PathOfRecord(messages[i])[k] = "\\"

CommitPrefix ==
  LET style == normal_style(styles[1], <<"devlog">>)
  IN IF style = <<"devlog">> THEN <<"devlog: shipped ">>
     ELSE IF style = <<"minimal">> THEN <<"Shipped: ">>
     ELSE <<"[done] Just shipped: ">>

\* C9: when git_commits is non-empty the commit short-form variant is built
\* from the latest commit message (the last element of git_commits),
\* truncated to 80 characters, for every twitter style.
C9_LatestCommit ==
  pc = "done" /\ summary.git_commits # <<>> =>
    /\ posts.short # <<>>
    /\ posts.short[1]
         = CommitPrefix
           \o Slice(summary.git_commits[Len(summary.git_commits)], 80)

CommitLeads == {"devlog: shipped ", "Shipped: ", "[done] Just shipped: "}
FilesLeads ==
  {"devlog: added ", "Created ", "[tools] Coding session complete!\n\nCreated "}
ErrorsLeads == {"devlog: fixed ", "Fixed ", "[bug] Squashed "}
DurationMarks ==
  {" in the trenches (", " of focused coding (", " of focused coding\n\n"}

VariantKind(v) ==
  IF v[1] \in CommitLeads THEN "commit"
  ELSE IF v[1] \in FilesLeads THEN "files"
  ELSE IF v[1] \in ErrorsLeads THEN "errors"
  ELSE IF \E k \in 1..Len(v) : v[k] \in DurationMarks THEN "duration"
  ELSE "other"

ExpectedKinds(sm) ==
  (IF sm.git_commits # <<>> THEN <<"commit">> ELSE <<>>)
  \o (IF sm.files_created # <<>> THEN <<"files">> ELSE <<>>)
  \o (IF sm.errors_fixed > 0 THEN <<"errors">> ELSE <<>>)
  \o (IF sm.duration_minutes > 0 THEN <<"duration">> ELSE <<>>)

OneVariantPerSignal ==
  /\ Len(posts.short) <= 4
  /\ [k \in 1..Len(posts.short) |-> VariantKind(posts.short[k])]
       = ExpectedKinds(summary)

DevlogLeads ==
  {"devlog: shipped ", "devlog: added ", "devlog: fixed ", "devlog: "}
ShipLeads ==
  {"[done] Just shipped: ", "[tools] Coding session complete!\n\nCreated ",
   "[bug] Squashed ", "[timer] "}
MinimalMarks == {"Shipped: ", "Created ", "Fixed ", " of focused coding ("}

WordingOf(v) ==
  IF v[1] \in DevlogLeads THEN "devlog"
  ELSE IF v[1] \in ShipLeads THEN "ship"
  ELSE IF \E k \in 1..Len(v) : v[k] \in MinimalMarks THEN "minimal"
  ELSE "other"

AllWorded(wording) ==
  \A k \in 1..Len(posts.short) : WordingOf(posts.short[k]) = wording

\* C11 as stated: when twitter_style is absent (None or empty) or is not
\* exactly devlog, minimal or ship, every short-form variant has the "ship"
\* wording; the exact values devlog and minimal select their own wording.
C11_Original ==
  pc = "done" =>
    LET st == styles[1]
    IN IF st = Some(<<"devlog">>) THEN AllWorded("devlog")
       ELSE IF st = Some(<<"minimal">>) THEN AllWorded("minimal")
       ELSE AllWorded("ship")

\* C11 amended: an absent twitter_style (None or empty) gives every
\* short-form variant the devlog wording; otherwise the style is stripped
\* and lower-cased, devlog and minimal select their own wording and every
\* other value selects the "ship" wording.
C11_Amended ==
  pc = "done" =>
    LET st == styles[1]
    IN IF st = None \/ st = Some(<<>>) THEN AllWorded("devlog")
       ELSE IF Lower(Strip(Get(st))) = <<"devlog">> THEN AllWorded("devlog")
       ELSE IF Lower(Strip(Get(st))) = <<"minimal">> THEN AllWorded("minimal")
       ELSE AllWorded("ship")

C11_Witness ==
  /\ pc = "done"
  /\ styles[1] = None
  /\ Len(posts.short) = 4
  /\ AllWorded("devlog")

HookTails ==
  {"\n\nHere's what went into this [thread]",
   "\n\nThread on how it came together [down]",
   " - building in public [thread]", "\n\nBreakdown [down]",
   " bugs in today's session\n\nThe debugging journey [thread]",
   " bugs today\n\nWhat I learned [down]",
   "\n\nSession recap [thread]", "\n\nWhat I shipped [down]",
   "\n\nProgress update [thread]", "\n\nWhat changed [down]"}
ClosingQuestion == <<"What are you building today?">>

IsHook(v) == v # ClosingQuestion /\ v[Len(v)] \in HookTails

\* position of a middle segment's category in the fixed order, 0 if none
SegmentRank(v) ==
  IF v[1] = "[pc] Tech stack: " THEN 1
  ELSE IF v[1] = "[memo] New files:\n" THEN 2
  ELSE IF v[1] = "[package] Commits:\n" THEN 3
  ELSE IF v[1] = "[tests] Tests: All passing [done]\n\nNothing beats that green checkmark feeling."
       THEN 4
  ELSE IF v[1] = "[bug] Fixed " THEN 5
  ELSE 0

NoThreadSignal(sm) ==
  /\ sm.git_commits = <<>>
  /\ sm.files_created = <<>>
  /\ sm.errors_fixed = 0
  /\ ~sm.tests_run
  /\ sm.languages_used = {}

\* C12: the thread is empty iff the Summary has no commits, no created
\* files, no fixed errors, no tests run and no languages; a non-empty
\* thread has at least two segments, starts with the hook, ends with the
\* closing question, and between them has at most one segment per category
\* (tech stack, new files, commits, tests, bugs) in that order.
C12_ThreadShape ==
  pc = "done" =>
    LET t == posts.thread
    IN /\ (t = <<>>) <=> NoThreadSignal(summary)
       /\ t # <<>> =>
            /\ Len(t) >= 2
            /\ IsHook(t[1])
            /\ SegmentRank(t[1]) = 0
            /\ t[Len(t)] = ClosingQuestion
            /\ \A k \in 2..(Len(t) - 1) : SegmentRank(t[k]) \in 1..5
            /\ \A j, k \in 2..(Len(t) - 1) :
                 j < k => SegmentRank(t[j]) < SegmentRank(t[k])

C12_Witness ==
  /\ pc = "done"
  /\ Len(posts.thread) = 7
  /\ IsHook(posts.thread[1])
  /\ [k \in 1..5 |-> SegmentRank(posts.thread[k + 1])] = <<1, 2, 3, 4, 5>>

HookKind(v) ==
  IF v[1] \in {"devlog: Just shipped ", "Just shipped: "} THEN "commit"
  ELSE IF v[1] \in {"devlog: Created ", "Built "} THEN "files"
  ELSE IF v[1] \in {"devlog: Squashed ", "Fixed "} THEN "bugs"
  ELSE IF v[1] \in {"devlog: Working on ", "Quick session on "}
       THEN "fallback"
  ELSE IF v[Len(v)] \in {"\n\nSession recap [thread]",
                         "\n\nWhat I shipped [down]"}
       THEN "language+duration"
  ELSE "other"

ExpectedHook(sm) ==
  IF sm.git_commits # <<>> THEN "commit"
  ELSE IF Len(sm.files_created) >= 3 THEN "files"
  ELSE IF sm.errors_fixed >= 2 THEN "bugs"
  ELSE IF sm.languages_used # {} /\ sm.duration_minutes > 15
       THEN "language+duration"
  ELSE "fallback"

HookByPriority ==
  /\ HookKind(posts.thread[1]) = ExpectedHook(summary)
  /\ ExpectedHook(summary) = "fallback" =>
       IsInfix(IF summary.project_name # <<>> THEN summary.project_name
               ELSE <<"my project">>, posts.thread[1])

\* C13 as stated: the hook of a non-empty thread follows the priority
\* commits, then at least 3 created files, then at least 2 fixed errors,
\* then languages with a duration over 15 minutes, then the fallback naming
\* the project; the commit hook contains the first commit message.
C13_Original ==
  pc = "done" /\ posts.thread # <<>> =>
    /\ HookByPriority
    /\ summary.git_commits # <<>> =>
         IsInfix(summary.git_commits[1], posts.thread[1])

\* C13 amended: the same priority; the commit hook contains the first 100
\* characters of the first commit message.
C13_Amended ==
  pc = "done" /\ posts.thread # <<>> =>
    /\ HookByPriority
    /\ summary.git_commits # <<>> =>
         IsInfix(Slice(summary.git_commits[1], 100), posts.thread[1])

C13_Witness ==
  /\ pc = "done"
  /\ posts.thread # <<>>
  /\ summary.git_commits = <<>>
  /\ Len(summary.files_created) < 3
  /\ summary.errors_fixed >= 2
  /\ summary.languages_used # {}
  /\ summary.duration_minutes > 15
  /\ HookKind(posts.thread[1]) = "bugs"

CategoryRank(category) ==
  IF category = "feature" THEN 1
  ELSE IF category = "milestone" THEN 2
  ELSE IF category = "test" THEN 3
  ELSE IF category = "fix" THEN 4
  ELSE 0

CountOf(hs, category) ==
  Cardinality({k \in 1..Len(hs) : hs[k].category = category})

Min(a, b) == IF a < b THEN a ELSE b

\* C14: the highlights are, in this order, at most one 'feature' (present
\* iff files were created, with at most 5 sample files), one 'milestone'
\* per commit for the first min(3, number of commits) commits in commit
\* order, at most one 'test' (present iff tests ran) and at most one 'fix'
\* (present iff errors_fixed > 0): at most 6 entries, and no category
\* appears before one that precedes it in this order.
C14_HighlightOrder ==
  pc = "generate" =>
    LET hs == summary.highlights
        first == IF summary.files_created # <<>> THEN 1 ELSE 0
        shown == Min(3, Len(summary.git_commits))
    IN /\ Len(hs) <= 6
       /\ \A k \in 1..Len(hs) : CategoryRank(hs[k].category) \in 1..4
       /\ \A j, k \in 1..Len(hs) :
            j < k => CategoryRank(hs[j].category)
                       <= CategoryRank(hs[k].category)
       /\ CountOf(hs, "feature") = first
       /\ \A k \in 1..Len(hs) :
            hs[k].category = "feature" =>
              /\ Len(hs[k].files_involved) <= 5
              /\ hs[k].files_involved
                   = Slice(summary.files_created, 5)
       /\ CountOf(hs, "milestone") = shown
       /\ \A i \in 1..shown :
            /\ hs[first + i].category = "milestone"
            /\ hs[first + i].description = summary.git_commits[i]
       /\ CountOf(hs, "test") = (IF summary.tests_run THEN 1 ELSE 0)
       /\ CountOf(hs, "fix") = (IF summary.errors_fixed > 0 THEN 1 ELSE 0)

C14_Witness ==
  /\ pc = "generate"
  /\ Len(summary.files_created) > 5
  /\ Len(summary.git_commits) > 3
  /\ summary.tests_run
  /\ summary.errors_fixed > 0
  /\ Len(summary.highlights) = 6

\* the processed records that carry a timestamp field
Stamped == {i \in 1..idx : messages[i].timestamp # None}
FirstStamped == CHOOSE i \in Stamped : \A j \in Stamped : i <= j
LastStamped == CHOOSE i \in Stamped : \A j \in Stamped : j <= i

ParsedStamp(opt) ==
  IF opt # None /\ Get(opt).t = "str"
  THEN fromisoformat(Replace(Get(opt).s, "Z", "+00:00"))
  ELSE None

\* C15: the start and end cursors are the timestamps of the first and the
\* last record carrying a timestamp field; duration_minutes is the whole
\* number of minutes between them when both parse as ISO-8601 and 0 when
\* fewer than two timestamps are present or a cursor fails to parse,
\* whatever its type; the duration computation never raises.
C15_TimestampsTolerated ==
  /\ pc \in {"extract", "generate", "done"} =>
       IF Stamped = {}
       THEN acc.first_timestamp = None /\ acc.last_timestamp = None
       ELSE /\ acc.first_timestamp
                 = PyValue(Get(messages[FirstStamped].timestamp))
            /\ acc.last_timestamp
                 = PyValue(Get(messages[LastStamped].timestamp))
  /\ pc = "raised" => idx < Len(messages)
  /\ pc \in {"generate", "done"} =>
       LET first_dt == ParsedStamp(acc.first_timestamp)
           last_dt == ParsedStamp(acc.last_timestamp)
       IN IF Cardinality(Stamped) < 2 \/ first_dt = None \/ last_dt = None
          THEN summary.duration_minutes = 0
          ELSE summary.duration_minutes
                 = TruncDiv60(Get(last_dt).seconds - Get(first_dt).seconds)

\* the record is a Bash tool use whose command contains 'git commit'
IsCommitCommand(msg) ==
  /\ msg.t = "dict"
  /\ is_tool_use(msg)
  /\ tool_name_of(msg) = "Bash"
  /\ tool_input_of(msg).t = "dict"
  /\ command_of(tool_input_of(msg)).t = "str"
  /\ IsInfix(<<"git", " ", "commit">>, command_of(tool_input_of(msg)).s)

\* the quoted -m argument of a commit command, None when there is none
QuotedMessage(msg) == commit_match(command_of(tool_input_of(msg)).s)

\* what a record contributes to git_commits
CommitsOfRecord(msg) ==
  IF IsCommitCommand(msg) /\ QuotedMessage(msg) # None
  THEN <<Get(QuotedMessage(msg))>> ELSE <<>>

\* C16: git_commits is the sequence, in transcript order, of the messages
\* of the Bash records whose command contains 'git commit' and a quoted -m
\* argument, one entry per such record, repeats kept: it starts empty, each
\* processed record appends its message if it is such a record and leaves
\* git_commits alone otherwise, nothing else changes it, the Summary holds
\* the list of the whole pass, and a commit command without a quoted
\* message never raises.
C16_CommitOrder ==
  /\ [](idx = 0 => acc.git_commits = <<>>)
  /\ [][acc'.git_commits
          = IF idx' = idx + 1
            THEN acc.git_commits \o CommitsOfRecord(messages[idx + 1])
            ELSE acc.git_commits]_vars
  /\ [](pc \in {"generate", "done"} =>
          idx = Len(messages) /\ summary.git_commits = acc.git_commits)
  /\ [](pc = "raised" /\ idx < Len(messages) =>
          ~(IsCommitCommand(messages[idx + 1])
              /\ QuotedMessage(messages[idx + 1]) = None))

C16_Witness ==
  /\ pc = "done"
  /\ summary.git_commits
       = <<<<"fix">>, <<"add", " ", "login">>, <<"fix">>>>

TokensOf(name) == SelectNonEmpty(Split(name, "-"))

\* C17: with no fallback, a raw name with at least 4 non-empty tokens gives
\* the hyphen-join of its last 4 tokens without their leading generic
\* directory names, so no token before the last four is returned, also
\* when the four tail tokens are all generic; a raw name with fewer than 4
\* tokens is returned unmodified.
C17_TailOnly ==
  pc = "named" /\ fallback = None =>
    LET tokens == TokensOf(raw_project_dir)
    IN IF Len(tokens) >= 4
       THEN /\ project_name
                 = Join(DropGeneric(LastN(tokens, 4)), <<"-">>)
            /\ Len(TokensOf(project_name)) <= 4
       ELSE project_name = raw_project_dir

\* the line is a record whose tool name is a write or edit tool, or a Bash
\* record whose command contains 'git commit'
IsActivityLine(line) ==
  /\ line.syntax = "json"
  /\ line.value.t = "dict"
  /\ \/ tool_name_of(line.value) \in write_tools \cup edit_tools
     \/ /\ tool_name_of(line.value) = "Bash"
        /\ tool_input_of(line.value).t = "dict"
        /\ command_of(tool_input_of(line.value)).t = "str"
        /\ IsInfix(<<"git", " ", "commit">>,
                   command_of(tool_input_of(line.value)).s)

\* C18: with CLAUDE_PLUGIN_ROOT set, no activity file at session start and
\* the logger run after every response, the session-end hook prints the
\* reminder iff the transcript contains a write, edit or 'git commit'
\* record, however many lines were appended between two logger runs, and
\* afterwards the activity file does not exist.
C18_ReminderIffActivity ==
  pc = "ended" /\ plugin_root =>
    /\ reminder <=> \E i \in 1..Len(transcript) : IsActivityLine(transcript[i])
    /\ activity_file = None

====
